---- MODULE Spec2Model ----
(***************************************************************************)
(* Model of the tarantula-ir data logger firmware (src/src/main/main.ino). *)
(*                                                                         *)
(* The firmware is one sequential thread: setup() runs once after every    *)
(* power-up, then loop() runs for ever.  The model follows the program     *)
(* counter statement by statement.  The environment (the removable medium, *)
(* the peripherals' health, the power supply) acts between statements.     *)
(***************************************************************************)
EXTENDS Integers, Sequences, FiniteSets

(***************************************************************************)
(* Bounds of the model.                                                    *)
(***************************************************************************)
\* most lines datalog.csv holds before loop() stops taking new samples
MaxLines == 3
\* the clock readings loop() meets: the date calibrate.ino sets (lines 16-21)
\* and the last second of that year
Times == {[year |-> 24, month |-> 4, date |-> 8,
           hour |-> 3, minute |-> 9, second |-> 5],
          [year |-> 24, month |-> 12, date |-> 31,
           hour |-> 23, minute |-> 59, second |-> 59]}
\* the thermopile readings loop() meets, in hundredths of a degree Celsius:
\* <<object, ambient>>
Temps == {<<2500, 2300>>, <<-1000, 2500>>}
\* the inputs the formatting is checked on
FmtTimes == [year : {0, 24, 99}, month : {1, 12}, date : {1, 31},
             hour : {0, 23}, minute : {0, 59}, second : {0, 59}]
FmtTemps == {-4000, -1000, 0, 2500, 12500}

(***************************************************************************)
(* Program constants.                                                      *)
(***************************************************************************)
\* main.ino:88  #define CSV_HEADER
CSV_HEADER == "Time (PET),Object Temperature,Ambient Temperature"
\* main.ino:172  char data_str[32]{}
DataStrSize == 32
\* main.ino:190, 192, 194  delay(200)
BlinkPhase == 200

VARIABLES
    pc,         \* the statement of setup()/loop() the firmware executes next
    led,        \* level of the indicator pin (LED, D7): TRUE = HIGH
    rtcOK,      \* the RTC answers the temperature probe (line 106)
    irOK,       \* the thermopile answers mlx.begin() (line 117)
    present,    \* a medium is in the uSD slot
    mounted,    \* the SD library holds an initialised volume of that medium
    file,       \* datalog.csv on the medium: [exists, lines]
    datalog,    \* the global File handle (line 87): TRUE = open and valid
    sample,     \* what the clock and the thermopile returned to this
                \* iteration's reads: [time, object, ambient]
    time,       \* loop()'s String time (line 167), a sequence of characters
    ambient_temp,   \* loop()'s String ambient_temp (line 168)
    object_temp,    \* loop()'s String object_temp (line 169)
    data,       \* loop()'s String data (line 171)
    data_str,   \* loop()'s local record buffer (line 172); NoData outside
    attempts,   \* SD.open calls made for the current reading
    writes,     \* lines this iteration's println put into the file
    pulses,     \* completed on/off pulses of the indicator in this iteration
    waited,     \* this iteration found the medium absent at least once
    slept,      \* this run has completed a delay(60000)
    openFailed, \* an SD.open of this run returned an invalid handle
    extra       \* milliseconds this iteration spent in delay() other than
                \* the medium wait (line 179) and the sleep (line 199)

vars == <<pc, led, rtcOK, irOK, present, mounted, file, datalog, sample,
          time, ambient_temp, object_temp, data, data_str,
          attempts, writes, pulses, waited, slept, openFailed, extra>>

\* loop()'s Strings and the readings they were made from
strings == <<sample, time, ambient_temp, object_temp, data>>

\* loop()'s bookkeeping of the current iteration
iter == <<strings, data_str, attempts, writes, pulses, waited, slept,
          openFailed, extra>>

(***************************************************************************)
(* Lines and files.                                                        *)
(***************************************************************************)
HeaderLine == [kind |-> "header", text |-> CSV_HEADER]

\* the line whose text is t + "," + o + "," + a (loop() line 171), by
\* its three fields
DataLine(t, o, a) ==
    [kind |-> "data", time |-> t, object |-> o, ambient |-> a]

NoData == [kind |-> "none"]

\* what a buffer holds that was written past its end
Garbled == [kind |-> "garbled"]

NoSample == [kind |-> "none"]

(***************************************************************************)
(* Strings are sequences of characters.                                    *)
(***************************************************************************)
Digits == <<"0", "1", "2", "3", "4", "5", "6", "7", "8", "9">>

IsDigit(c) == \E i \in 1..10 : Digits[i] = c

\* String(n) of an unsigned integer: decimal, no padding
RECURSIVE StringInt(_)
StringInt(n) ==
    IF n < 10 THEN <<Digits[n + 1]>>
    ELSE StringInt(n \div 10) \o <<Digits[(n % 10) + 1]>>

\* String(x) of a float, x given in hundredths: sign, integer part, '.',
\* two decimals
StringFloat(c) ==
    LET a == IF c < 0 THEN 0 - c ELSE c
    IN  (IF c < 0 THEN <<"-">> ELSE <<>>)
        \o StringInt(a \div 100) \o <<".">>
        \o <<Digits[((a \div 10) % 10) + 1], Digits[(a % 10) + 1]>>

\* lines 73-82: print_time() on the clock registers r
print_time(r) ==
    LET d1 == <<"2", "0">> \o StringInt(r.year)
        d2 == d1 \o <<"-">> \o StringInt(r.month)
        d3 == d2 \o <<"-">> \o StringInt(r.date)
        d4 == d3 \o <<" ">>
        d5 == d4 \o StringInt(r.hour)
        d6 == d5 \o <<":">> \o StringInt(r.minute)
    IN  d6 \o <<":">> \o StringInt(r.second)

\* line 171: time + "," + object_temp + "," + ambient_temp
DataText(t, o, a) == t \o <<",">> \o o \o <<",">> \o a

\* lines 172-173: what data_str holds after strcpy(data_str, data.c_str()):
\* the text of line l if it and its NUL fit the buffer; writing past the
\* end of data_str is undefined, the line may survive or not
Strcpy(d, l) ==
    IF Len(d) + 1 <= DataStrSize THEN {l} ELSE {l, Garbled}

NoFile == [exists |-> FALSE, lines |-> <<>>]

IsHeader(l) == l.kind = "header"
IsData(l) == l.kind = "data"

HeaderCount(f) == Cardinality({i \in 1..Len(f.lines) : IsHeader(f.lines[i])})
DataCount(f) == Cardinality({i \in 1..Len(f.lines) : IsData(f.lines[i])})

(***************************************************************************)
(* The SD library calls as main.ino uses them.                             *)
(***************************************************************************)
\* SD.begin(CS): succeeds iff a medium answers
SDbegin(p) == p

\* an existence test that reports a file on every medium
SDexistsAlways(m, f) == m

\* SD.exists("datalog.csv")
SDexists(m, f) == m /\ f.exists

\* a FILE_WRITE that truncated (O_TRUNC in place of O_APPEND)
SDopenTruncating(f) == [exists |-> TRUE, lines |-> <<>>]

\* SD.open("datalog.csv", FILE_WRITE): the file after a successful open.
\* FILE_WRITE creates a missing file and positions at the end of an
\* existing one; it never truncates.
SDopen(f) == IF f.exists THEN f ELSE [exists |-> TRUE, lines |-> <<>>]

\* datalog.println(l) on a valid handle
FilePrintln(f, l) == [f EXCEPT !.lines = Append(@, l)]

SetupPcs == {"s_start", "s_rtc", "s_ir", "s_sd", "s_exists", "s_hopen",
             "s_hprint", "s_hclose", "s_open", "s_test", "s_close",
             "s_delay", "s_ledoff"}
HaltPcs == {"halt_rtc", "halt_ir", "halt_sd", "halt_file"}
BlinkPcs == {"l_on1", "l_off1", "l_on2", "l_off2"}
LoopPcs == {"l_read", "l_begin", "l_wait", "l_open", "l_test", "l_println",
            "l_close", "l_sleep"} \cup BlinkPcs

TypeOK ==
    /\ pc \in SetupPcs \cup HaltPcs \cup LoopPcs
    /\ led \in BOOLEAN /\ rtcOK \in BOOLEAN /\ irOK \in BOOLEAN
    /\ present \in BOOLEAN /\ mounted \in BOOLEAN /\ datalog \in BOOLEAN
    /\ file.exists \in BOOLEAN
    /\ Len(file.lines) <= MaxLines
    /\ attempts \in Nat /\ writes \in Nat /\ pulses \in Nat
    /\ waited \in BOOLEAN /\ slept \in BOOLEAN /\ openFailed \in BOOLEAN
    /\ extra \in Nat

(***************************************************************************)
(* Power-up: pins are inputs (indicator dark), globals are constructed.    *)
(***************************************************************************)
Init ==
    /\ pc = "s_start"
    /\ led = FALSE
    /\ rtcOK \in BOOLEAN
    /\ irOK \in BOOLEAN
    /\ present \in BOOLEAN
    /\ mounted = FALSE
    /\ file = NoFile
    /\ datalog = FALSE
    /\ sample = NoSample
    /\ time = <<>>
    /\ ambient_temp = <<>>
    /\ object_temp = <<>>
    /\ data = <<>>
    /\ data_str = NoData
    /\ attempts = 0
    /\ writes = 0
    /\ pulses = 0
    /\ waited = FALSE
    /\ slept = FALSE
    /\ openFailed = FALSE
    /\ extra = 0

(***************************************************************************)
(* setup()                                                                 *)
(***************************************************************************)
\* a setup() that leaves the indicator dark
StartLevelLow == FALSE

\* line 94: digitalWrite(LED, HIGH)
StartLevel == TRUE

\* lines 93-102: pinMode, digitalWrite(LED, HIGH), Serial.begin, Wire.begin
SetupStart ==
    /\ pc = "s_start"
    /\ led' = StartLevel
    /\ pc' = "s_rtc"
    /\ UNCHANGED <<rtcOK, irOK, present, mounted, file, datalog, iter>>

\* a clock probe whose failure branch does not stop the program
SetupRtcNextFallsThrough(ok) == "s_ir"

\* lines 106-112: if the probe got no answer, report and while(true)
SetupRtcNext(ok) == IF ok THEN "s_ir" ELSE "halt_rtc"

\* lines 105-113: probe the RTC; while(true) on failure
SetupRtc ==
    /\ pc = "s_rtc"
    /\ pc' = SetupRtcNext(rtcOK)
    /\ UNCHANGED <<led, rtcOK, irOK, present, mounted, file, datalog,
                   iter>>

\* a sensor check whose failure branch does not stop the program
SetupIrNextFallsThrough(ok) == "s_sd"

\* a sensor check with the test inverted
SetupIrNextInverted(ok) == IF ok THEN "halt_ir" ELSE "s_sd"

\* lines 116-124: mlx.begin(); while(true) on failure
SetupIrNext(ok) == IF ok THEN "s_sd" ELSE "halt_ir"

SetupIr ==
    /\ pc = "s_ir"
    /\ pc' = SetupIrNext(irOK)
    /\ UNCHANGED <<led, rtcOK, irOK, present, mounted, file, datalog,
                   iter>>

\* lines 130-139: SD.begin(CS); while(true) on failure
SetupSd ==
    /\ pc = "s_sd"
    /\ mounted' = SDbegin(present)
    /\ pc' = IF mounted' THEN "s_exists" ELSE "halt_sd"
    /\ UNCHANGED <<led, rtcOK, irOK, present, file, datalog, iter>>

\* line 141: if (!SD.exists("datalog.csv"))
SetupExists ==
    /\ pc = "s_exists"
    /\ pc' = IF SDexists(mounted, file) THEN "s_open" ELSE "s_hopen"
    /\ UNCHANGED <<led, rtcOK, irOK, present, mounted, file, datalog, iter>>

\* line 142: datalog = SD.open("datalog.csv", FILE_WRITE); result not tested
SetupHeaderOpen ==
    /\ pc = "s_hopen"
    /\ \E ok \in BOOLEAN :
        /\ datalog' = (mounted /\ ok)
        /\ file' = IF datalog' THEN SDopen(file) ELSE file
    /\ openFailed' = (openFailed \/ ~datalog')
    /\ pc' = "s_hprint"
    /\ UNCHANGED <<led, rtcOK, irOK, present, mounted, strings, data_str,
                   attempts, writes, pulses, waited, slept, extra>>

\* line 143: datalog.println(CSV_HEADER); writes nothing through a handle
\* that is not valid or whose medium is gone
SetupHeaderPrint ==
    /\ pc = "s_hprint"
    /\ file' = IF datalog /\ mounted THEN FilePrintln(file, HeaderLine)
               ELSE file
    /\ pc' = "s_hclose"
    /\ UNCHANGED <<led, rtcOK, irOK, present, mounted, datalog, iter>>

\* a close() that is missing
FileCloseMissing(d) == d

\* datalog.close()
FileClose(d) == FALSE

\* lines 144-146: datalog.close()
SetupHeaderClose ==
    /\ pc = "s_hclose"
    /\ datalog' = FileClose(datalog)
    /\ pc' = "s_open"
    /\ UNCHANGED <<led, rtcOK, irOK, present, mounted, file, iter>>

\* line 149: datalog = SD.open("datalog.csv", FILE_WRITE)
SetupOpen ==
    /\ pc = "s_open"
    /\ \E ok \in BOOLEAN :
        /\ datalog' = (mounted /\ ok)
        /\ file' = IF datalog' THEN SDopen(file) ELSE file
    /\ openFailed' = (openFailed \/ ~datalog')
    /\ pc' = "s_test"
    /\ UNCHANGED <<led, rtcOK, irOK, present, mounted, strings, data_str,
                   attempts, writes, pulses, waited, slept, extra>>

\* lines 150-155: if (!datalog) while(true);
SetupTest ==
    /\ pc = "s_test"
    /\ pc' = IF datalog THEN "s_close" ELSE "halt_file"
    /\ UNCHANGED <<led, rtcOK, irOK, present, mounted, file, datalog, iter>>

\* line 156: datalog.close()
SetupClose ==
    /\ pc = "s_close"
    /\ datalog' = FileClose(datalog)
    /\ pc' = "s_delay"
    /\ UNCHANGED <<led, rtcOK, irOK, present, mounted, file, iter>>

\* line 159: delay(1000)
SetupDelay ==
    /\ pc = "s_delay"
    /\ pc' = "s_ledoff"
    /\ UNCHANGED <<led, rtcOK, irOK, present, mounted, file, datalog, iter>>

\* lines 160-162: digitalWrite(LED, LOW); report readiness; setup returns
SetupLedOff ==
    /\ pc = "s_ledoff"
    /\ led' = FALSE
    /\ pc' = "l_read"
    /\ UNCHANGED <<rtcOK, irOK, present, mounted, file, datalog, iter>>

(***************************************************************************)
(* loop()                                                                  *)
(***************************************************************************)
\* lines 167-174: read the clock and the thermopile, format the record and
\* copy it into data_str.  A new iteration starts with fresh locals.
LoopRead ==
    /\ pc = "l_read"
    /\ Len(file.lines) < MaxLines
    /\ \E t \in Times, r \in Temps :
        sample' = [time |-> t, object |-> r[1], ambient |-> r[2]]
    /\ time' = print_time(sample'.time)
    /\ ambient_temp' = StringFloat(sample'.ambient)
    /\ object_temp' = StringFloat(sample'.object)
    /\ data' = DataText(time', object_temp', ambient_temp')
    /\ data_str' \in Strcpy(data', DataLine(time', object_temp', ambient_temp'))
    /\ attempts' = 0
    /\ writes' = 0
    /\ pulses' = 0
    /\ waited' = FALSE
    /\ extra' = 0
    /\ pc' = "l_begin"
    /\ UNCHANGED <<led, rtcOK, irOK, present, mounted, file, datalog, slept,
                   openFailed>>

\* a loop() that treats an absent medium as setup() does
LoopBeginNextHalts(m) == IF m THEN "l_open" ELSE "halt_sd"

\* line 177: while (!SD.begin(CS)): where loop() goes on the test's outcome
LoopBeginNext(m) == IF m THEN "l_open" ELSE "l_wait"

LoopBegin ==
    /\ pc = "l_begin"
    /\ mounted' = SDbegin(present)
    /\ pc' = LoopBeginNext(mounted')
    /\ waited' = (waited \/ ~mounted')
    /\ UNCHANGED <<led, rtcOK, irOK, present, file, datalog, strings,
                   data_str, attempts, writes, pulses, slept, openFailed,
                   extra>>

\* lines 178-179: Serial.println("No uSD card detected!"); delay(1000)
LoopWait ==
    /\ pc = "l_wait"
    /\ pc' = "l_begin"
    /\ UNCHANGED <<led, rtcOK, irOK, present, mounted, file, datalog, iter>>

\* line 182: datalog = SD.open("datalog.csv", FILE_WRITE)
LoopOpen ==
    /\ pc = "l_open"
    /\ \E ok \in BOOLEAN :
        /\ datalog' = (mounted /\ ok)
        /\ file' = IF datalog' THEN SDopen(file) ELSE file
    /\ openFailed' = (openFailed \/ ~datalog')
    /\ attempts' = attempts + 1
    /\ pc' = "l_test"
    /\ UNCHANGED <<led, rtcOK, irOK, present, mounted, strings, data_str,
                   writes, pulses, waited, slept, extra>>

\* a loop() that tries the open again after a failure
LoopTestNextRetries(d) == IF d THEN "l_println" ELSE "l_open"

\* line 183: if (datalog) ... else ...
LoopTestNext(d) == IF d THEN "l_println" ELSE "l_on1"

LoopTest ==
    /\ pc = "l_test"
    /\ pc' = LoopTestNext(datalog)
    /\ UNCHANGED <<led, rtcOK, irOK, present, mounted, file, datalog, iter>>

\* lines 184-185: datalog.println(data_str)
LoopPrintln ==
    /\ pc = "l_println"
    /\ IF datalog /\ mounted
       THEN file' = FilePrintln(file, data_str) /\ writes' = writes + 1
       ELSE UNCHANGED <<file, writes>>
    /\ pc' = "l_close"
    /\ UNCHANGED <<led, rtcOK, irOK, present, mounted, datalog, strings,
                   data_str, attempts, pulses, waited, slept, openFailed,
                   extra>>

\* line 189: digitalWrite(LED, HIGH)
LoopBlinkOn1 ==
    /\ pc = "l_on1"
    /\ led' = TRUE
    /\ pc' = "l_off1"
    /\ UNCHANGED <<rtcOK, irOK, present, mounted, file, datalog, iter>>

\* lines 190-191: delay(200); digitalWrite(LED, LOW)
LoopBlinkOff1 ==
    /\ pc = "l_off1"
    /\ led' = FALSE
    /\ pulses' = IF led THEN pulses + 1 ELSE pulses
    /\ pc' = "l_on2"
    /\ extra' = extra + BlinkPhase
    /\ UNCHANGED <<rtcOK, irOK, present, mounted, file, datalog, strings,
                   data_str, attempts, writes, waited, slept, openFailed>>

\* lines 192-193: delay(200); digitalWrite(LED, HIGH)
LoopBlinkOn2 ==
    /\ pc = "l_on2"
    /\ led' = TRUE
    /\ extra' = extra + BlinkPhase
    /\ pc' = "l_off2"
    /\ UNCHANGED <<rtcOK, irOK, present, mounted, file, datalog, strings,
                   data_str, attempts, writes, pulses, waited, slept,
                   openFailed>>

\* a failure signal that ends with the indicator lit
BlinkEndsHigh == TRUE

\* the level the last digitalWrite of the failure signal sets (line 195)
BlinkEndLevel == FALSE

\* lines 194-195: delay(200); digitalWrite(LED, LOW)
LoopBlinkOff2 ==
    /\ pc = "l_off2"
    /\ led' = BlinkEndLevel
    /\ pulses' = IF led /\ ~led' THEN pulses + 1 ELSE pulses
    /\ pc' = "l_close"
    /\ extra' = extra + BlinkPhase
    /\ UNCHANGED <<rtcOK, irOK, present, mounted, file, datalog, strings,
                   data_str, attempts, writes, waited, slept, openFailed>>

\* line 197: datalog.close()
LoopClose ==
    /\ pc = "l_close"
    /\ datalog' = FileClose(datalog)
    /\ pc' = "l_sleep"
    /\ UNCHANGED <<led, rtcOK, irOK, present, mounted, file, iter>>

\* line 199: delay(60000); loop() returns and is called again
LoopSleep ==
    /\ pc = "l_sleep"
    /\ slept' = TRUE
    /\ pc' = "l_read"
    /\ UNCHANGED <<led, rtcOK, irOK, present, mounted, file, datalog, strings,
                   data_str, attempts, writes, pulses, waited, openFailed,
                   extra>>

\* every statement of the firmware
Firmware ==
    \/ SetupStart \/ SetupRtc \/ SetupIr \/ SetupSd \/ SetupExists
    \/ SetupHeaderOpen \/ SetupHeaderPrint \/ SetupHeaderClose
    \/ SetupOpen \/ SetupTest \/ SetupClose \/ SetupDelay \/ SetupLedOff
    \/ LoopRead \/ LoopBegin \/ LoopWait \/ LoopOpen \/ LoopTest
    \/ LoopPrintln \/ LoopBlinkOn1 \/ LoopBlinkOff1 \/ LoopBlinkOn2
    \/ LoopBlinkOff2 \/ LoopClose \/ LoopSleep

(***************************************************************************)
(* The environment.                                                        *)
(***************************************************************************)
\* the medium is pulled out of the slot; the library's volume is stale
RemoveMedium ==
    /\ present
    /\ present' = FALSE
    /\ mounted' = FALSE
    /\ UNCHANGED <<pc, led, rtcOK, irOK, file, datalog, iter>>

\* the same medium is put back
InsertMedium ==
    /\ ~present
    /\ present' = TRUE
    /\ UNCHANGED <<pc, led, rtcOK, irOK, mounted, file, datalog, iter>>

\* the medium is exchanged for an empty one (or datalog.csv was removed
\* from it while it was out of the device)
InsertBlankMedium ==
    /\ ~present
    /\ present' = TRUE
    /\ file' = NoFile
    /\ UNCHANGED <<pc, led, rtcOK, irOK, mounted, datalog, iter>>

\* power is cycled (or the reset button pressed): RAM and pins are
\* re-initialised and setup() runs again; peripherals may have been
\* repaired or have failed meanwhile.  The medium keeps its content.
PowerCycle ==
    /\ pc' = "s_start"
    /\ led' = FALSE
    /\ rtcOK' \in BOOLEAN
    /\ irOK' \in BOOLEAN
    /\ mounted' = FALSE
    /\ datalog' = FALSE
    /\ sample' = NoSample
    /\ time' = <<>>
    /\ ambient_temp' = <<>>
    /\ object_temp' = <<>>
    /\ data' = <<>>
    /\ data_str' = NoData
    /\ attempts' = 0
    /\ writes' = 0
    /\ pulses' = 0
    /\ waited' = FALSE
    /\ slept' = FALSE
    /\ openFailed' = FALSE
    /\ extra' = 0
    /\ UNCHANGED <<present, file>>

Environment ==
    \/ RemoveMedium \/ InsertMedium \/ InsertBlankMedium \/ PowerCycle

Next == Firmware \/ Environment

Spec == Init /\ [][Next]_vars

\* the processor never stops executing the statement it is at
LiveSpec == Spec /\ WF_vars(Firmware)

(***************************************************************************)
(* One run on healthy peripherals with a medium that holds no log file and *)
(* stays in the slot: the statements of setup() and loop() only.  With the *)
(* medium in place SD.begin at line 177 succeeds and the body of the while *)
(* at lines 177-180 is never entered.                                      *)
(***************************************************************************)
QuietInit == Init /\ rtcOK /\ irOK /\ present

QuietNext ==
    \/ SetupStart \/ SetupRtc \/ SetupIr \/ SetupSd \/ SetupExists
    \/ SetupHeaderOpen \/ SetupHeaderPrint \/ SetupHeaderClose
    \/ SetupOpen \/ SetupTest \/ SetupClose \/ SetupDelay \/ SetupLedOff
    \/ LoopRead \/ LoopBegin \/ LoopOpen \/ LoopTest
    \/ LoopPrintln \/ LoopBlinkOn1 \/ LoopBlinkOff1 \/ LoopBlinkOn2
    \/ LoopBlinkOff2 \/ LoopClose \/ LoopSleep

QuietSpec == QuietInit /\ [][QuietNext]_vars

(***************************************************************************)
(* The formatting of one record, lines 167-173 of loop(), statement by     *)
(* statement, on every clock and thermopile reading of FmtTimes, FmtTemps. *)
(***************************************************************************)
FmtInit ==
    /\ pc = "f_time"
    /\ sample \in [time : FmtTimes, object : FmtTemps, ambient : FmtTemps]
    /\ led = FALSE
    /\ rtcOK = TRUE
    /\ irOK = TRUE
    /\ present = TRUE
    /\ mounted = TRUE
    /\ file = NoFile
    /\ datalog = FALSE
    /\ time = <<>>
    /\ ambient_temp = <<>>
    /\ object_temp = <<>>
    /\ data = <<>>
    /\ data_str = NoData
    /\ attempts = 0
    /\ writes = 0
    /\ pulses = 0
    /\ waited = FALSE
    /\ slept = FALSE
    /\ openFailed = FALSE
    /\ extra = 0

\* line 167: String time = print_time()
FmtPrintTime ==
    /\ pc = "f_time"
    /\ time' = print_time(sample.time)
    /\ pc' = "f_temps"
    /\ UNCHANGED <<led, rtcOK, irOK, present, mounted, file, datalog, sample,
                   ambient_temp, object_temp, data, data_str, attempts,
                   writes, pulses, waited, slept, openFailed, extra>>

\* lines 168-169: String(mlx.readAmbientTempC()), String(mlx.readObjectTempC())
FmtReadTemps ==
    /\ pc = "f_temps"
    /\ ambient_temp' = StringFloat(sample.ambient)
    /\ object_temp' = StringFloat(sample.object)
    /\ pc' = "f_data"
    /\ UNCHANGED <<led, rtcOK, irOK, present, mounted, file, datalog, sample,
                   time, data, data_str, attempts, writes, pulses, waited,
                   slept, openFailed, extra>>

\* line 171: String data = time + "," + object_temp + "," + ambient_temp
FmtData ==
    /\ pc = "f_data"
    /\ data' = DataText(time, object_temp, ambient_temp)
    /\ pc' = "f_copy"
    /\ UNCHANGED <<led, rtcOK, irOK, present, mounted, file, datalog, sample,
                   time, ambient_temp, object_temp, data_str, attempts,
                   writes, pulses, waited,
                   slept, openFailed, extra>>

\* lines 172-173: char data_str[32]{}; strcpy(data_str, data.c_str())
FmtCopy ==
    /\ pc = "f_copy"
    /\ data_str' \in Strcpy(data, DataLine(time, object_temp, ambient_temp))
    /\ pc' = "f_done"
    /\ UNCHANGED <<led, rtcOK, irOK, present, mounted, file, datalog,
                   strings, attempts, writes, pulses, waited,
                   slept, openFailed, extra>>

FmtNext == FmtPrintTime \/ FmtReadTemps \/ FmtData \/ FmtCopy

FmtSpec == FmtInit /\ [][FmtNext]_vars

(***************************************************************************)
(* Properties.                                                             *)
(***************************************************************************)
\* a step of the firmware from statement p (power cycles lead to s_start,
\* the other environment steps leave pc alone)
StepFrom(p) == pc = p /\ pc' # p /\ pc' # "s_start"

\* C1: as long as datalog.csv exists on the medium it holds exactly one
\* header line, whatever power cycles and loop iterations happened; the
\* only exception is the instant inside setup()'s header block between
\* creating the file (line 142) and printing the header (line 143).
C1_HeaderWrittenExactlyOnce ==
    (file.exists /\ pc # "s_hprint") => HeaderCount(file) = 1

\* C2: a step of loop() never truncates or reorders an existing file: it
\* leaves the lines as they are or, at the println of line 184, puts the
\* one new record after them; a println through a valid handle on a
\* mounted medium turns N lines into the same N lines plus data_str.
C2_AppendKeepsContent ==
    [][ /\ (pc \in LoopPcs /\ pc' \in LoopPcs /\ file.exists /\ file'.exists)
            => \/ file'.lines = file.lines
               \/ pc = "l_println" /\ file'.lines = Append(file.lines, data_str)
        /\ (StepFrom("l_println") /\ datalog /\ mounted /\ file.exists)
            => file'.lines = Append(file.lines, data_str) ]_vars

\* C2 witness: a record was appended to a file that already held the header
\* and a data line
C2_Witness ==
    /\ pc = "l_close" /\ writes = 1
    /\ Len(file.lines) = 3 /\ IsHeader(file.lines[1])
    /\ IsData(file.lines[2]) /\ file.lines[3] = data_str

\* C3: a failed startup check (clock probe, sensor initialize, medium
\* initialize, log file open) leads to the while(true) of that check, and
\* until the device is reset nothing leaves it: no retry, no readiness, no
\* iteration of loop(), no write to the file, no change of the indicator.
C3_FailedCheckHaltsForGood ==
    [][ /\ (StepFrom("s_rtc") /\ ~rtcOK) => pc' = "halt_rtc"
        /\ (StepFrom("s_ir") /\ ~irOK) => pc' = "halt_ir"
        /\ (StepFrom("s_sd") /\ ~present) => pc' = "halt_sd"
        /\ (StepFrom("s_test") /\ ~datalog) => pc' = "halt_file"
        /\ (pc \in HaltPcs /\ pc' # "s_start")
            => /\ pc' = pc
               /\ led' = led /\ datalog' = datalog /\ iter' = iter
               /\ (file' = file \/ ~file'.exists) ]_vars

\* C3 witness: halted on the log file check with a medium in the slot
C3_Witness == pc = "halt_file" /\ present /\ mounted

\* C4: a sensor that fails mlx.begin() sends setup() into the while(true)
\* of line 119 with the indicator on; up to and in that halt the run has
\* mounted no medium, holds no file handle and creates no file.
C4_SensorFailureHaltsBeforeStorage ==
    /\ [](pc \in {"s_rtc", "s_ir", "halt_rtc", "halt_ir"}
            => led /\ ~mounted /\ ~datalog)
    /\ [][ /\ (StepFrom("s_ir") /\ ~irOK) => pc' = "halt_ir"
           /\ (pc = "halt_ir" /\ pc' # "s_start") => pc' = "halt_ir" /\ led'
           /\ (pc \in {"s_start", "s_rtc", "s_ir", "halt_rtc", "halt_ir"}
                /\ ~file.exists) => ~file'.exists ]_vars

\* C4 witness: halted on the sensor check, a medium without log file in
\* the slot
C4_Witness == pc = "halt_ir" /\ ~irOK /\ present /\ ~file.exists /\ led

\* C5: no step of loop() enters a halt; the wait of line 179 is followed
\* by a new SD.begin; and if the medium is eventually present for good,
\* every wait leads to the open of line 182 (or the device is reset).
C5_AbsentMediumOnlyBlocks ==
    /\ [][ /\ pc \in LoopPcs => pc' \notin HaltPcs
           /\ StepFrom("l_wait") => pc' = "l_begin"
           /\ (StepFrom("l_begin") /\ ~present) => pc' = "l_wait" ]_vars
    /\ (<>[]present => ((pc = "l_wait") ~> (pc \in {"l_open", "s_start"})))

\* C5 witness: loop() reached the open after having waited for the medium
C5_Witness == pc = "l_open" /\ waited /\ mounted

\* the open of this iteration failed and its failure branch has run
FailedOpenDone == pc = "l_close" /\ ~datalog

\* C6 as claimed: after a failed open the indicator has pulsed three times
\* and is off.
C6_ThreePulses == FailedOpenDone => (pulses = 3 /\ ~led)

\* C6 amended: after a failed open the indicator has pulsed exactly twice
\* (on, off, on, off: lines 189-195) and is off; an iteration whose open
\* succeeded does not pulse it.
C6_TwoPulses ==
    /\ FailedOpenDone => (pulses = 2 /\ ~led)
    /\ (pc \in LoopPcs /\ datalog) => pulses = 0

\* C6 witness: the failure signal has run with the medium mounted
C6_Witness == FailedOpenDone /\ attempts = 1 /\ mounted /\ pulses = 2

\* the iteration is past an open that failed
AfterFailedOpen ==
    pc \in {"l_test", "l_close", "l_sleep"} \cup BlinkPcs
    /\ attempts = 1 /\ ~datalog /\ writes = 0

\* C7: a reading gets at most one open and at most one line; after a failed
\* open the iteration writes nothing, does not open again, does not halt,
\* and runs on through the sleep to the next read, which starts a new
\* reading.
C7_DropAndContinue ==
    /\ [](attempts <= 1 /\ writes <= 1)
    /\ [][ /\ (StepFrom("l_test") /\ ~datalog) => pc' = "l_on1"
           /\ (AfterFailedOpen /\ pc' # "s_start")
                => /\ pc' \notin HaltPcs \cup {"l_open", "l_println"}
                   /\ (file' = file \/ ~file'.exists)
                   /\ writes' = 0
           /\ StepFrom("l_sleep") => pc' = "l_read"
           /\ StepFrom("l_read")
                => pc' = "l_begin" /\ attempts' = 0 /\ writes' = 0 ]_vars

\* C7 witness: an iteration whose open failed is in its 60-second sleep
C7_Witness == pc = "l_sleep" /\ attempts = 1 /\ writes = 0 /\ pulses = 2

\* C8: the handle is open only between an open and its close: not at the
\* start of an iteration, in the medium wait, in a delay or sleep, or in a
\* halt.
C8_HandleClosedBetweenIterations ==
    datalog => pc \in {"s_hprint", "s_hclose", "s_test", "s_close",
                       "l_test", "l_println", "l_close"}

\* C8 witness: sleeping after a successful append, handle closed
C8_Witness == pc = "l_sleep" /\ writes = 1 /\ ~datalog

\* C9: a file with a data line starts with the header and has one header.
C9_DataFileHasHeaderFirst ==
    DataCount(file) >= 1
        => IsHeader(file.lines[1]) /\ HeaderCount(file) = 1

IsTimestampText(s) ==
    /\ Len(s) = 19
    /\ s[5] = "-" /\ s[8] = "-" /\ s[11] = " " /\ s[14] = ":" /\ s[17] = ":"
    /\ \A i \in (1..19) \ {5, 8, 11, 14, 17} : IsDigit(s[i])

\* C11: for every valid clock reading the String print_time() returns has
\* exactly 19 characters, in the pattern YYYY-MM-DD HH:MM:SS.
C11_TimestampIs19Chars ==
    pc \in {"f_temps", "f_data", "f_copy", "f_done"} => IsTimestampText(time)

\* C16: the record always fits data_str: its text has at most 31
\* characters, so that strcpy writes it and its NUL inside the 32 bytes.
C16_RecordFitsBuffer ==
    pc \in {"f_copy", "f_done"} => Len(data) + 1 <= DataStrSize

(***************************************************************************)
(* C12                                                                     *)
(***************************************************************************)
\* the file holds the header and, after it, the record of the run's first
\* iteration, and nothing else
Headed(f) == f.exists /\ f.lines # <<>> /\ IsHeader(f.lines[1])

FirstRecordLogged ==
    /\ file.exists
    /\ file.lines = <<HeaderLine, data_str>>

Enters(p) == pc' = p /\ pc # p

\* the statements of setup() and loop() that use the storage
StoragePcs == (SetupPcs \ {"s_start", "s_rtc", "s_ir"}) \cup LoopPcs
                \cup {"halt_sd", "halt_file"}

IsNumberText(s) ==
    LET u == IF s # <<>> /\ s[1] = "-" THEN Tail(s) ELSE s
    IN  /\ Len(u) >= 4
        /\ u[Len(u) - 2] = "."
        /\ \A i \in (1..Len(u)) \ {Len(u) - 2} : IsDigit(u[i])

\* s is a date and a time of day as print_time() joins them: three numbers
\* separated by "-", a space, three numbers separated by ":"
IsTimestampLike(s) ==
    /\ Len(s) >= 13
    /\ \A i \in 1..Len(s) : IsDigit(s[i]) \/ s[i] \in {"-", " ", ":"}
    /\ Cardinality({i \in 1..Len(s) : s[i] = "-"}) = 2
    /\ Cardinality({i \in 1..Len(s) : s[i] = ":"}) = 2
    /\ Cardinality({i \in 1..Len(s) : s[i] = " "}) = 1

(***************************************************************************)
(* C14, C15                                                                *)
(***************************************************************************)
\* the record of the reading taken at lines 167-169 of this iteration
ThisReading ==
    DataLine(print_time(sample.time), StringFloat(sample.object),
             StringFloat(sample.ambient))

\* C14: the line an iteration of loop() appends is the timestamp, the object
\* temperature and the ambient temperature, in that order, of the reading
\* that same iteration took.
C14_LineIsThisIterationsReading ==
    [][ (StepFrom("l_println") /\ file'.lines # file.lines)
            => file'.lines = Append(file.lines, ThisReading) ]_vars

\* l is the header or a record with its three fields
WellFormed(l) ==
    \/ l = HeaderLine
    \/ /\ IsData(l)
       /\ IsTimestampLike(l.time) /\ IsNumberText(l.object)
       /\ IsNumberText(l.ambient)

\* C15: whatever the medium went through (removed, put back, exchanged, at
\* any statement) and whatever resets happened, every line of the file is
\* the complete header or one complete record of three fields.
C15_NoMalformedLine ==
    \A i \in 1..Len(file.lines) : WellFormed(file.lines[i])

(***************************************************************************)
(* C17                                                                     *)
(***************************************************************************)
\* C17: the reading is taken once per iteration, at lines 167-169, before
\* the medium check; while loop() tests and waits for the medium at lines
\* 177-180 neither the reading nor the Strings nor data_str change; and the
\* line appended after a wait is the record of the reading taken before it.
C17_LineCarriesReadingFromBeforeWait ==
    [][ /\ (sample' # sample /\ pc' # "s_start")
            => pc = "l_read" /\ pc' = "l_begin"
        /\ (pc \in {"l_begin", "l_wait"} /\ pc' # "s_start")
            => UNCHANGED <<sample, strings, data_str>>
        /\ (StepFrom("l_println") /\ waited /\ file'.lines # file.lines)
            => file'.lines = Append(file.lines, ThisReading) ]_vars

\* the delays of one iteration besides the medium wait and the 60-second
\* sleep: none when the record was written or dropped on a lost handle,
\* three delay(200) when the open failed
C17_DelaysOfAnIteration ==
    pc = "l_sleep" => extra = IF pulses = 0 THEN 0 ELSE 3 * BlinkPhase

\* an iteration that waited for the medium ends after a failed open
C17_FailedOpenAfterWait ==
    pc = "l_sleep" /\ waited /\ pulses = 2 /\ extra = 3 * BlinkPhase

====
